---- MODULE Spec2Model ----
(***************************************************************************)
(* Model of systemd_unit_monitor.py: the SystemdUnitMonitor reconciler.    *)
(* Strings the code takes apart (unit names, glob patterns) are sequences  *)
(* of one-character strings.  A handler is a run of steps of one thread;   *)
(* the bus and the timer only queue work for it.                           *)
(***************************************************************************)
EXTENDS Integers, Sequences, FiniteSets, TLC

\* ---------------------------------------------------------------- bounds
MaxQueue == 1      \* D-Bus signals waiting to be dispatched
MaxTime == 1       \* distinct readings of time.time()
MaxPatterns == 2   \* patterns in an include or exclude list
MaxStartupQueue == 2   \* D-Bus signals that arrive while run is starting up

\* ------------------------------------------------------- names and strings
aService == <<"a", ".", "s", "e", "r", "v", "i", "c", "e">>
bTimer == <<"b", ".", "t", "i", "m", "e", "r">>
DotService == <<".", "s", "e", "r", "v", "i", "c", "e">>
StarDotTimer == <<"*", ".", "t", "i", "m", "e", "r">>

UnitNames == {aService, bTimer}

\* the characters of the model in ASCII order
Alphabet ==
    <<"!", "*", "-", ".", "?", "S", "[", "]", "a", "b", "c", "e", "i", "m",
      "r", "s", "t", "v">>

Ord(c) == CHOOSE i \in 1..Len(Alphabet) : Alphabet[i] = c

endswith(s, suffix) ==
    /\ Len(s) >= Len(suffix)
    /\ SubSeq(s, Len(s) - Len(suffix) + 1, Len(s)) = suffix

\* ------------------------------------------------------- fnmatch.fnmatch
\* index of the "]" that closes the bracket expression opened before
\* position i of pat, or 0 when there is none (the "[" is then literal)
RECURSIVE ScanBracket(_, _)
ScanBracket(pat, j) ==
    IF j > Len(pat) THEN 0
    ELSE IF pat[j] = "]" THEN j
    ELSE ScanBracket(pat, j + 1)

BracketEnd(pat, i) ==
    LET j1 == IF i <= Len(pat) /\ pat[i] = "!" THEN i + 1 ELSE i
        j2 == IF j1 <= Len(pat) /\ pat[j1] = "]" THEN j1 + 1 ELSE j1
    IN ScanBracket(pat, j2)

\* does the character set written as stuff (ranges x-y, else literals) hold c
RECURSIVE InCharSet(_, _, _)
InCharSet(stuff, k, c) ==
    IF k > Len(stuff) THEN FALSE
    ELSE IF k + 2 <= Len(stuff) /\ stuff[k + 1] = "-"
         THEN \/ (Ord(stuff[k]) <= Ord(c) /\ Ord(c) <= Ord(stuff[k + 2]))
              \/ InCharSet(stuff, k + 3, c)
         ELSE \/ stuff[k] = c
              \/ InCharSet(stuff, k + 1, c)

BracketMatches(stuff, c) ==
    IF stuff[1] = "!"
    THEN ~InCharSet(stuff, 2, c)
    ELSE InCharSet(stuff, 1, c)

\* pat[i..] matches name[j..] entirely
RECURSIVE GlobFrom(_, _, _, _)
GlobFrom(pat, i, name, j) ==
    IF i > Len(pat) THEN j > Len(name)
    ELSE IF pat[i] = "*"
         THEN \/ GlobFrom(pat, i + 1, name, j)
              \/ (j <= Len(name) /\ GlobFrom(pat, i, name, j + 1))
    ELSE IF j > Len(name) THEN FALSE
    ELSE IF pat[i] = "?" THEN GlobFrom(pat, i + 1, name, j + 1)
    ELSE IF pat[i] = "[" /\ BracketEnd(pat, i + 1) # 0
         THEN LET e == BracketEnd(pat, i + 1)
              IN /\ BracketMatches(SubSeq(pat, i + 1, e - 1), name[j])
                 /\ GlobFrom(pat, e + 1, name, j + 1)
    ELSE pat[i] = name[j] /\ GlobFrom(pat, i + 1, name, j + 1)

\* fnmatch.fnmatchcase: the comparison itself, characters as they are
fnmatchcase(name, pat) == GlobFrom(pat, 1, name, 1)

\* the one upper-case letter of the model and its lower-case form
lower(c) == IF c = "S" THEN "s" ELSE c

\* os.path.normcase of a system whose file names ignore case
normcase_Lower(s) == [i \in 1..Len(s) |-> lower(s[i])]

\* os.path.normcase where systemd runs (posixpath): the string unchanged
normcase(s) == s

\* fnmatch.fnmatch: name and pattern go through os.path.normcase first
fnmatch(name, pat) == fnmatchcase(normcase(name), normcase(pat))


\* ---------------------------------------------------------- filter engine
\* any(...) looking at the first pattern of the list only
any_fnmatch_First(unit_name, patterns) ==
    patterns # <<>> /\ fnmatch(unit_name, patterns[1])

any_fnmatch(unit_name, patterns) ==
    \E k \in 1..Len(patterns) : fnmatch(unit_name, patterns[k])

\* _should_monitor_unit letting a match of an include pattern decide
ShouldMonitor_IncludeWins(unit_name, include, exclude) ==
    IF include # <<>>
    THEN any_fnmatch(unit_name, include)
    ELSE ~(exclude # <<>> /\ any_fnmatch(unit_name, exclude))

\* lines 129-143
ShouldMonitor(unit_name, include, exclude) ==
    IF include # <<>> /\ ~any_fnmatch(unit_name, include)
    THEN FALSE
    ELSE ~(exclude # <<>> /\ any_fnmatch(unit_name, exclude))

\* the filter configurations a monitor is constructed with
Configs ==
    { [include |-> <<>>, exclude |-> <<StarDotTimer>>],
      [include |-> <<>>, exclude |-> <<>>] }

\* --------------------------------------------------------- optional values
None == <<>>
Some(x) == <<x>>

\* ------------------------------------------------------------- the bus
\* the calls get_unit_stats makes; a reply names the ones that raise and
\* the values the others return
MandatoryCalls == {"GetUnit", "get_object", "ActiveState", "SubState", "LoadState"}
ExtendedCalls == {"MainPID", "NRestarts", "MemoryCurrent", "CPUUsageNSec", "UnitFileState"}
Calls == MandatoryCalls \cup ExtendedCalls

MkReply(f, a, s, pid) ==
    [fails |-> f, ActiveState |-> a, SubState |-> s, LoadState |-> "loaded",
     UnitFileState |-> "enabled", MainPID |-> pid, NRestarts |-> 2,
     MemoryCurrent |-> 52428800, CPUUsageNSec |-> 1234567890]

NoReply == MkReply({}, "", "", 0)

AllReplies ==
    { MkReply(f, a, s, pid) :
        f \in SUBSET Calls, a \in {"active", "inactive"},
        s \in {"running", "dead"}, pid \in {0, 1234} }

\* the replies the bus gives in the reconciler's runs
LoopReplies ==
    { MkReply({}, "active", "running", 1234),
      MkReply({}, "inactive", "dead", 0),
      MkReply({"GetUnit"}, "inactive", "dead", 0) }

Times == 1..MaxTime

\* ------------------------------------------------------- stats collector
UnitStats(name, active_state, sub_state, load_state, unit_file_state, main_pid, restart_count, memory_current, cpu_usage_nsec, timestamp) ==
    [name |-> name, active_state |-> active_state, sub_state |-> sub_state,
     load_state |-> load_state, unit_file_state |-> unit_file_state,
     main_pid |-> main_pid, restart_count |-> restart_count,
     memory_current |-> memory_current, cpu_usage_nsec |-> cpu_usage_nsec,
     timestamp |-> timestamp]

\* get_unit_stats giving up only when GetUnit or get_object fails: a base
\* property that cannot be read is reported as "unknown"
get_unit_stats_Partial(unit_name, r, now) ==
    IF r.fails \cap {"GetUnit", "get_object"} # {}
    THEN None
    ELSE Some(UnitStats(unit_name,
                        IF "ActiveState" \in r.fails THEN "unknown" ELSE r.ActiveState,
                        IF "SubState" \in r.fails THEN "unknown" ELSE r.SubState,
                        IF "LoadState" \in r.fails THEN "unknown" ELSE r.LoadState,
                        "unknown", 0, 0, 0, 0, now))

\* get_unit_stats without the endswith(".service") test of line 219
get_unit_stats_AnyUnit(unit_name, r, now) ==
    IF r.fails \cap MandatoryCalls # {}
    THEN None
    ELSE
      LET pid_raises == "MainPID" \in r.fails
          aborted == pid_raises \/ "NRestarts" \in r.fails
      IN Some(UnitStats(unit_name, r.ActiveState, r.SubState, r.LoadState,
                        IF ~aborted /\ "UnitFileState" \notin r.fails
                        THEN r.UnitFileState ELSE "unknown",
                        IF ~pid_raises THEN r.MainPID ELSE 0,
                        IF ~aborted THEN r.NRestarts ELSE 0,
                        IF ~aborted /\ "MemoryCurrent" \notin r.fails
                        THEN r.MemoryCurrent ELSE 0,
                        IF ~aborted /\ "CPUUsageNSec" \notin r.fails
                        THEN r.CPUUsageNSec ELSE 0,
                        now))

\* get_unit_stats(unit_name) when the bus answers with r and the clock reads now
get_unit_stats(unit_name, r, now) ==
    IF r.fails \cap MandatoryCalls # {}
    THEN None
    ELSE
      LET is_service == endswith(unit_name, DotService)
          \* the exception that leaves the outer try block at lines 218-242
          pid_raises == is_service /\ "MainPID" \in r.fails
          restarts_raises == is_service /\ ~pid_raises /\ "NRestarts" \in r.fails
          aborted == pid_raises \/ restarts_raises
          main_pid == IF is_service /\ ~pid_raises THEN r.MainPID ELSE 0
          restart_count == IF is_service /\ ~aborted THEN r.NRestarts ELSE 0
          memory_current ==
              IF ~aborted /\ "MemoryCurrent" \notin r.fails
              THEN r.MemoryCurrent ELSE 0
          cpu_usage_nsec ==
              IF ~aborted /\ "CPUUsageNSec" \notin r.fails
              THEN r.CPUUsageNSec ELSE 0
          unit_file_state ==
              IF ~aborted /\ "UnitFileState" \notin r.fails
              THEN r.UnitFileState ELSE "unknown"
      IN Some(UnitStats(unit_name, r.ActiveState, r.SubState, r.LoadState,
                        unit_file_state, main_pid, restart_count,
                        memory_current, cpu_usage_nsec, now))

\* ------------------------------------------------------- metric emitter
\* A line is a sequence of pieces: a piece is one character, or a word of
\* several characters none of which is a space, a comma, "=", a double
\* quote or a newline.  A string is a sequence of pieces as well.
DigitChars == <<"0", "1", "2", "3", "4", "5", "6", "7", "8", "9">>

\* str(n) of a non-negative int, as the f-string writes it
RECURSIVE Digits(_)
Digits(n) ==
    IF n < 10 THEN <<DigitChars[n + 1]>>
    ELSE Append(Digits(n \div 10), DigitChars[(n % 10) + 1])

\* sep.join(items)
RECURSIVE Join(_, _)
Join(items, sep) ==
    IF items = <<>> THEN <<>>
    ELSE IF Len(items) = 1 THEN items[1]
    ELSE items[1] \o <<sep>> \o Join(Tail(items), sep)

\* the strings of a snapshot as sequences of pieces: the name is one
\* already, a state is a single piece
Str(v) == IF v = "" THEN <<>> ELSE <<v>>

\* self.username and self.uid (lines 82-84) and the measurement (line 264)
username == "testuser"
uid == 1000
measurement == "systemd_units"

\* a tag written without the quotes around its value
TagItem_Bare(key, value) == <<key, "=">> \o value

\* lines 267-275: f'key="{value}"'
TagItem(key, value) == <<key, "=", "\"">> \o value \o <<"\"">>

\* a field written without the suffix of its type
FieldItem_NoSuffix(key, n) == <<key, "=">> \o Digits(n)

\* lines 279-284: f"key={n}i"
FieldItem(key, n) == <<key, "=">> \o Digits(n) \o <<"i">>

\* lines 264-288: the line send_to_telegraf builds for a snapshot
FormatLine(st) ==
    LET tags == << TagItem("unit", st.name),
                   TagItem("active_state", Str(st.active_state)),
                   TagItem("sub_state", Str(st.sub_state)),
                   TagItem("load_state", Str(st.load_state)),
                   TagItem("unit_file_state", Str(st.unit_file_state)),
                   TagItem("username", Str(username)),
                   TagItem("uid", Digits(uid)) >>
        tags_str == Join(tags, ",")
        fields == << FieldItem("main_pid", st.main_pid),
                     FieldItem("restart_count", st.restart_count),
                     FieldItem("memory_current", st.memory_current),
                     FieldItem("cpu_usage_nsec", st.cpu_usage_nsec) >>
        fields_str == Join(fields, ",")
        timestamp_ns == st.timestamp * 1000000000
    IN <<measurement, ",">> \o tags_str \o <<" ">> \o fields_str \o <<" ">>
           \o Digits(timestamp_ns) \o <<"\n">>

\* what the socket does during one send_to_telegraf call
SocketOutcomes == {"ok", "socket_fail", "connect_fail", "send_fail"}

Ev(e) == [ev |-> e]

\* lines 294-296: the body of the inner try
SendBody(st, outcome) ==
    IF outcome = "connect_fail"
    THEN [events |-> <<Ev("connect_raises")>>, exc |-> TRUE]
    ELSE IF outcome = "send_fail"
    THEN [events |-> <<Ev("connect"), Ev("send_raises")>>, exc |-> TRUE]
    ELSE [events |-> <<Ev("connect"), [ev |-> "send", stats |-> st, line |-> FormatLine(st)], Ev("debug")>>,
          exc |-> FALSE]

\* the inner try without its except clause
SendExcept_Absent(b) == b

\* the except clause trying the socket a second time
SendExcept_Retry(b) ==
    IF b.exc
    THEN [events |-> b.events \o <<Ev("warning"), Ev("connect"), Ev("send_raises")>>,
          exc |-> FALSE]
    ELSE b

\* lines 297-298: except Exception -> logger.warning
SendExcept(b) ==
    IF b.exc
    THEN [events |-> Append(b.events, Ev("warning")), exc |-> FALSE]
    ELSE b

\* the inner try without its finally clause
SendFinally_Absent(b) == b

\* lines 299-300: finally -> sock.close()
SendFinally(b) == [events |-> Append(b.events, Ev("close")), exc |-> b.exc]

\* lines 302-303: the outer except Exception -> logger.error
SendOuterExcept(b) ==
    IF b.exc
    THEN [events |-> Append(b.events, Ev("error")), exc |-> FALSE]
    ELSE b

\* lines 263-303; raised tells whether an exception leaves the call
send_to_telegraf(st, outcome) ==
    LET body ==
            IF outcome = "socket_fail"
            THEN [events |-> <<Ev("socket_raises")>>, exc |-> TRUE]
            ELSE LET b == SendFinally(SendExcept(SendBody(st, outcome)))
                 IN [events |-> <<Ev("socket")>> \o b.events, exc |-> b.exc]
        r == SendOuterExcept(body)
    IN [events |-> r.events, raised |-> r.exc]

\* ---------------------------------------------------------------- state
VARIABLES
    pc,                 \* where the single thread of the monitor stands
    handler,            \* the callback (or "startup") it is running
    exit_status,        \* None while the process runs
    include_patterns,   \* self.include_patterns
    exclude_patterns,   \* self.exclude_patterns
    units,              \* self.units: unit name -> UnitStats
    filtered_units,     \* self.filtered_units
    signals,            \* D-Bus signals received and not yet dispatched
    timer_armed,        \* the GLib timeout source exists
    tick_due,           \* the timeout has elapsed and is not yet dispatched
    todo,               \* the unit names the running loop still has to visit
    unit_name,          \* the unit the handler is working on
    stats,              \* collect_and_send_unit_stats: stats
    old_stats,          \* collect_and_send_unit_stats: old_stats
    reply,              \* what the bus answered to the running collection
    listing,            \* what ListUnits answered to the discovery of this startup
    trace,              \* what the running collect_and_send call did, in order
    collected,          \* the collections of the running handler, in order
    emitted,            \* the snapshots the running handler passed to the emitter
    raised,             \* an exception left send_to_telegraf
    scope0,             \* filtered_units when the running handler started
    units0,             \* units when the running handler started
    removed_since,      \* tracked units removed by UnitRemoved, no UnitNew handled since
    discovery           \* "pending" before get_all_units, then "listed"; "failed"
                        \* from a failed ListUnits until the first handler of the
                        \* main loop has returned

config == <<include_patterns, exclude_patterns>>
store == <<units, filtered_units>>
env == <<signals, timer_armed, tick_due>>
locals == <<todo, unit_name, stats, old_stats, reply, listing>>
record == <<trace, collected, emitted, raised>>
entry == <<scope0, units0>>
vars == <<pc, handler, exit_status, config, store, env, locals, record, entry,
          removed_since, discovery>>

EmptyDict == [u \in {} |-> None]

dict_set(d, k, v) == [x \in DOMAIN d \cup {k} |-> IF x = k THEN v ELSE d[x]]
dict_pop(d, k) == [x \in DOMAIN d \ {k} |-> d[x]]
dict_get(d, k) == IF k \in DOMAIN d THEN Some(d[k]) ELSE None

should_monitor_unit(name) == ShouldMonitor(name, include_patterns, exclude_patterns)

Sig(s, n, i) == [signal |-> s, name |-> n, interface |-> i]

Signals ==
    { Sig(s, n, "org.freedesktop.systemd1.Manager") :
        s \in {"UnitNew", "UnitRemoved"}, n \in UnitNames }
    \cup { Sig("PropertiesChanged", <<>>, i) :
        i \in {"org.freedesktop.systemd1.Unit", "org.freedesktop.systemd1.Service"} }

\* the orders in which a set can be listed
Perms(S) ==
    { p \in [1..Cardinality(S) -> S] :
        \A i, j \in 1..Cardinality(S) : p[i] = p[j] => i = j }

\* what ListUnits can return: the units of the manager, each once
Listings == UNION { Perms(S) : S \in SUBSET UnitNames }

Init ==
    /\ pc = "connect"
    /\ handler = "startup"
    /\ exit_status = None
    /\ \E c \in Configs :
        /\ include_patterns = c.include
        /\ exclude_patterns = c.exclude
    /\ units = EmptyDict
    /\ filtered_units = {}
    /\ signals = <<>>
    /\ timer_armed = FALSE
    /\ tick_due = FALSE
    /\ todo = <<>>
    /\ unit_name = <<>>
    /\ stats = None
    /\ old_stats = None
    /\ reply = NoReply
    /\ listing = None
    /\ trace = <<>>
    /\ collected = <<>>
    /\ emitted = <<>>
    /\ raised = FALSE
    /\ scope0 = {}
    /\ units0 = EmptyDict
    /\ removed_since = {}
    /\ discovery = "pending"


\* ------------------------------------------------------------- startup
\* connect_to_systemd logging the failure and carrying on (no sys.exit)
connect_to_systemd_Continues ==
    /\ pc = "connect"
    /\ \E connected \in BOOLEAN :
        IF connected
        THEN trace' = trace
        ELSE trace' = <<Ev("bus_error")>>
    /\ pc' = "discover"
    /\ UNCHANGED <<handler, exit_status, config, store, env, locals, collected,
                   emitted, raised, entry, removed_since, discovery>>

\* run, line 356: connect_to_systemd; failure is logged and is sys.exit(1)
connect_to_systemd ==
    /\ pc = "connect"
    /\ \E connected \in BOOLEAN :
        IF connected
        THEN /\ pc' = "discover"
             /\ exit_status' = exit_status
             /\ trace' = trace
        ELSE /\ pc' = "exited"
             /\ exit_status' = Some(1)
             /\ trace' = <<Ev("bus_error")>>
    /\ UNCHANGED <<handler, config, store, env, locals, collected, emitted, raised,
                   entry, removed_since, discovery>>

\* where a loop over todo goes once a unit is dealt with
AfterCall(rest) == IF rest = <<>> THEN "ret" ELSE "collect"

Range(seq) == { seq[i] : i \in 1..Len(seq) }

\* get_all_units letting the failure of ListUnits leave run
get_all_units_Raises ==
    /\ pc = "discover"
    /\ \/ /\ todo' = <<>>
          /\ filtered_units' = filtered_units
          /\ listing' = None
          /\ discovery' = "failed"
          /\ trace' = <<Ev("list_error")>>
          /\ pc' = "exited"
          /\ exit_status' = Some(1)
       \/ \E listed \in Listings :
            LET unit_names == SelectSeq(listed, should_monitor_unit)
            IN /\ todo' = unit_names
               /\ filtered_units' = filtered_units \cup Range(unit_names)
               /\ listing' = Some(listed)
               /\ discovery' = "listed"
               /\ trace' = trace
               /\ pc' = AfterCall(unit_names)
               /\ exit_status' = exit_status
    /\ UNCHANGED <<handler, config, units, env, unit_name, stats,
                   old_stats, reply, collected, emitted, raised, entry, removed_since>>

\* get_all_units putting every listed unit into scope, line 190 outside
\* the if of line 188
get_all_units_AddsAll ==
    /\ pc = "discover"
    /\ \/ /\ todo' = <<>>
          /\ filtered_units' = filtered_units
          /\ listing' = None
          /\ discovery' = "failed"
          /\ trace' = <<Ev("list_error")>>
       \/ \E listed \in Listings :
            LET unit_names == SelectSeq(listed, should_monitor_unit)
            IN /\ todo' = unit_names
               /\ filtered_units' = filtered_units \cup Range(listed)
               /\ listing' = Some(listed)
               /\ discovery' = "listed"
               /\ trace' = trace
    /\ pc' = AfterCall(todo')
    /\ UNCHANGED <<handler, exit_status, config, units, env, unit_name, stats,
                   old_stats, reply, collected, emitted, raised, entry, removed_since>>

\* run, lines 359-363: get_all_units, whose result the initial loop walks
get_all_units ==
    /\ pc = "discover"
    /\ \/ \* ListUnits raises: the error is logged and the result is []
          /\ todo' = <<>>
          /\ filtered_units' = filtered_units
          /\ listing' = None
          /\ discovery' = "failed"
          /\ trace' = <<Ev("list_error")>>
       \/ \E listed \in Listings :
            LET unit_names == SelectSeq(listed, should_monitor_unit)
            IN /\ todo' = unit_names
               /\ filtered_units' = filtered_units \cup Range(unit_names)
               /\ listing' = Some(listed)
               /\ discovery' = "listed"
               /\ trace' = trace
    /\ pc' = AfterCall(todo')
    /\ UNCHANGED <<handler, exit_status, config, units, env, unit_name, stats,
                   old_stats, reply, collected, emitted, raised, entry, removed_since>>

\* run, lines 367-368: GLib.timeout_add_seconds
arm_timer ==
    /\ pc = "arm"
    /\ timer_armed' = TRUE
    /\ pc' = "idle"
    /\ UNCHANGED <<handler, exit_status, config, store, signals, tick_due, locals,
                   record, entry, removed_since, discovery>>

\* ------------------------------------------------------ the environment
\* a signal of the bus reaches the connection; receivers exist from
\* connect_to_systemd on
SignalArrives ==
    /\ pc \notin {"connect", "exited"}
    /\ Len(signals) < MaxQueue
    /\ \E s \in Signals : signals' = Append(signals, s)
    /\ UNCHANGED <<pc, handler, exit_status, config, store, timer_armed, tick_due,
                   locals, record, entry, removed_since, discovery>>

\* the poll interval elapses
TimerFires ==
    /\ pc # "exited"
    /\ timer_armed
    /\ ~tick_due
    /\ tick_due' = TRUE
    /\ UNCHANGED <<pc, handler, exit_status, config, store, signals, timer_armed,
                   locals, record, entry, removed_since, discovery>>

\* run, lines 375-376: KeyboardInterrupt ends loop.run()
Interrupt ==
    /\ pc = "idle"
    /\ pc' = "exited"
    /\ exit_status' = Some(0)
    /\ UNCHANGED <<handler, config, store, env, locals, record, entry, removed_since, discovery>>

\* ------------------------------------------------------------ handlers
\* the main loop calls handler h: what the handler starts from
Enter(h, name) ==
    /\ handler' = h
    /\ unit_name' = name
    /\ stats' = None
    /\ old_stats' = None
    /\ reply' = NoReply
    /\ listing' = None
    /\ trace' = <<>>
    /\ collected' = <<>>
    /\ emitted' = <<>>
    /\ raised' = FALSE
    /\ scope0' = filtered_units
    /\ units0' = units

\* on_unit_new without line 310
on_unit_new_NoAdd ==
    /\ pc = "idle"
    /\ signals # <<>>
    /\ Head(signals).signal = "UnitNew"
    /\ LET name == Head(signals).name
       IN /\ signals' = Tail(signals)
          /\ Enter("new", name)
          /\ removed_since' = removed_since \ {name}
          /\ filtered_units' = filtered_units
          /\ IF should_monitor_unit(name)
             THEN /\ todo' = <<name>>
                  /\ pc' = "collect"
             ELSE /\ todo' = <<>>
                  /\ pc' = "ret"
    /\ UNCHANGED <<exit_status, discovery, config, units, timer_armed, tick_due>>

\* on_unit_new without the test of line 308
on_unit_new_NoFilter ==
    /\ pc = "idle"
    /\ signals # <<>>
    /\ Head(signals).signal = "UnitNew"
    /\ LET name == Head(signals).name
       IN /\ signals' = Tail(signals)
          /\ Enter("new", name)
          /\ removed_since' = removed_since \ {name}
          /\ filtered_units' = filtered_units \cup {name}
          /\ todo' = <<name>>
          /\ pc' = "collect"
    /\ UNCHANGED <<exit_status, discovery, config, units, timer_armed, tick_due>>

\* lines 305-311, up to the call of collect_and_send_unit_stats
on_unit_new ==
    /\ pc = "idle"
    /\ signals # <<>>
    /\ Head(signals).signal = "UnitNew"
    /\ LET name == Head(signals).name
       IN /\ signals' = Tail(signals)
          /\ Enter("new", name)
          /\ removed_since' = removed_since \ {name}
          /\ IF should_monitor_unit(name)
             THEN /\ filtered_units' = filtered_units \cup {name}
                  /\ todo' = <<name>>
                  /\ pc' = "collect"
             ELSE /\ filtered_units' = filtered_units
                  /\ todo' = <<>>
                  /\ pc' = "ret"
    /\ UNCHANGED <<exit_status, discovery, config, units, timer_armed, tick_due>>

\* on_unit_removed without line 319
on_unit_removed_KeepsEntry ==
    /\ pc = "idle"
    /\ signals # <<>>
    /\ Head(signals).signal = "UnitRemoved"
    /\ LET name == Head(signals).name
       IN /\ signals' = Tail(signals)
          /\ Enter("removed", name)
          /\ units' = units
          /\ IF name \in filtered_units
             THEN /\ filtered_units' = filtered_units \ {name}
                  /\ removed_since' = removed_since \cup {name}
             ELSE UNCHANGED <<filtered_units, removed_since>>
    /\ todo' = <<>>
    /\ pc' = "ret"
    /\ UNCHANGED <<exit_status, discovery, config, timer_armed, tick_due>>

\* on_unit_removed without line 318
on_unit_removed_KeepsScope ==
    /\ pc = "idle"
    /\ signals # <<>>
    /\ Head(signals).signal = "UnitRemoved"
    /\ LET name == Head(signals).name
       IN /\ signals' = Tail(signals)
          /\ Enter("removed", name)
          /\ filtered_units' = filtered_units
          /\ IF name \in filtered_units
             THEN /\ units' = dict_pop(units, name)
                  /\ removed_since' = removed_since \cup {name}
             ELSE UNCHANGED <<units, removed_since>>
    /\ todo' = <<>>
    /\ pc' = "ret"
    /\ UNCHANGED <<exit_status, discovery, config, timer_armed, tick_due>>

\* on_unit_removed called from a second thread: it does not wait for the
\* handler that is running to return
on_unit_removed_Reentrant ==
    /\ pc \in {"idle", "collect", "store", "log", "emit"}
    /\ signals # <<>>
    /\ Head(signals).signal = "UnitRemoved"
    /\ LET name == Head(signals).name
       IN /\ signals' = Tail(signals)
          /\ IF pc = "idle"
             THEN /\ Enter("removed", name)
                  /\ todo' = <<>>
                  /\ pc' = "ret"
             ELSE UNCHANGED <<pc, handler, locals, record, entry>>
          /\ IF name \in filtered_units
             THEN /\ filtered_units' = filtered_units \ {name}
                  /\ units' = dict_pop(units, name)
                  /\ removed_since' = removed_since \cup {name}
             ELSE UNCHANGED <<filtered_units, units, removed_since>>
    /\ UNCHANGED <<exit_status, discovery, config, timer_armed, tick_due>>

\* lines 313-319
on_unit_removed ==
    /\ pc = "idle"
    /\ signals # <<>>
    /\ Head(signals).signal = "UnitRemoved"
    /\ LET name == Head(signals).name
       IN /\ signals' = Tail(signals)
          /\ Enter("removed", name)
          /\ IF name \in filtered_units
             THEN /\ filtered_units' = filtered_units \ {name}
                  /\ units' = dict_pop(units, name)
                  /\ removed_since' = removed_since \cup {name}
             ELSE UNCHANGED <<filtered_units, units, removed_since>>
    /\ todo' = <<>>
    /\ pc' = "ret"
    /\ UNCHANGED <<exit_status, discovery, config, timer_armed, tick_due>>

\* on_properties_changed refreshing the units in scope at once, as a poll
\* tick does
on_properties_changed_Refreshes ==
    /\ pc = "idle"
    /\ signals # <<>>
    /\ Head(signals).signal = "PropertiesChanged"
    /\ signals' = Tail(signals)
    /\ Enter("props", <<>>)
    /\ \E order \in Perms(filtered_units) :
        /\ todo' = order
        /\ pc' = AfterCall(order)
    /\ UNCHANGED <<exit_status, config, store, timer_armed, tick_due, removed_since, discovery>>

\* lines 321-328
on_properties_changed ==
    /\ pc = "idle"
    /\ signals # <<>>
    /\ Head(signals).signal = "PropertiesChanged"
    /\ signals' = Tail(signals)
    /\ Enter("props", <<>>)
    /\ todo' = <<>>
    /\ pc' = "ret"
    /\ UNCHANGED <<exit_status, config, store, timer_armed, tick_due, removed_since, discovery>>

\* poll_units walking the keys of self.units instead of self.filtered_units
poll_units_StoredOnly ==
    /\ pc = "idle"
    /\ tick_due
    /\ tick_due' = FALSE
    /\ Enter("poll", <<>>)
    /\ \E order \in Perms(DOMAIN units) :
        /\ todo' = order
        /\ pc' = AfterCall(order)
    /\ UNCHANGED <<exit_status, config, store, signals, timer_armed, removed_since, discovery>>

\* lines 346-349: the timeout callback; list(self.filtered_units) fixes the
\* units and some order of them
poll_units ==
    /\ pc = "idle"
    /\ tick_due
    /\ tick_due' = FALSE
    /\ Enter("poll", <<>>)
    /\ \E order \in Perms(filtered_units) :
        /\ todo' = order
        /\ pc' = AfterCall(order)
    /\ UNCHANGED <<exit_status, config, store, signals, timer_armed, removed_since, discovery>>

\* ------------------------------------------ collect_and_send_unit_stats
\* a loop that ends at the first unit whose collection fails
collect_EndsLoopOnFailure(Replies) ==
    /\ pc = "collect"
    /\ \E r \in Replies, now \in Times :
        LET name == Head(todo)
            st == get_unit_stats(name, r, now)
        IN /\ unit_name' = name
           /\ todo' = IF st = None THEN <<>> ELSE Tail(todo)
           /\ reply' = r
           /\ listing' = listing
           /\ stats' = st
           /\ old_stats' = None
           /\ trace' = <<[ev |-> "collect", unit |-> name]>>
           /\ collected' = Append(collected, [unit |-> name, stats |-> st])
           /\ pc' = IF st = None THEN "ret" ELSE "store"
    /\ UNCHANGED <<handler, exit_status, config, store, env, emitted, raised, entry,
                   removed_since, discovery>>

\* a collection that forgets the stored snapshot of the unit when it fails
collect_ForgetsOnFailure(Replies) ==
    /\ pc = "collect"
    /\ \E r \in Replies, now \in Times :
        LET name == Head(todo)
            st == get_unit_stats(name, r, now)
        IN /\ unit_name' = name
           /\ todo' = Tail(todo)
           /\ reply' = r
           /\ listing' = listing
           /\ stats' = st
           /\ old_stats' = None
           /\ trace' = <<[ev |-> "collect", unit |-> name]>>
           /\ collected' = Append(collected, [unit |-> name, stats |-> st])
           /\ units' = IF st = None THEN dict_pop(units, name) ELSE units
           /\ pc' = IF st = None THEN AfterCall(Tail(todo)) ELSE "store"
    /\ UNCHANGED <<handler, exit_status, config, filtered_units, env, emitted, raised,
                   entry, removed_since, discovery>>

\* a collection that takes the unit out of the scope set when it fails
collect_UntracksOnFailure(Replies) ==
    /\ pc = "collect"
    /\ \E r \in Replies, now \in Times :
        LET name == Head(todo)
            st == get_unit_stats(name, r, now)
        IN /\ unit_name' = name
           /\ todo' = Tail(todo)
           /\ reply' = r
           /\ listing' = listing
           /\ stats' = st
           /\ old_stats' = None
           /\ trace' = <<[ev |-> "collect", unit |-> name]>>
           /\ collected' = Append(collected, [unit |-> name, stats |-> st])
           /\ filtered_units' = IF st = None THEN filtered_units \ {name}
                                ELSE filtered_units
           /\ pc' = IF st = None THEN AfterCall(Tail(todo)) ELSE "store"
    /\ UNCHANGED <<handler, exit_status, config, units, env, emitted, raised,
                   entry, removed_since, discovery>>

\* lines 332-333: stats = self.get_unit_stats(unit_name); if stats:
collect(Replies) ==
    /\ pc = "collect"
    /\ \E r \in Replies, now \in Times :
        LET name == Head(todo)
            st == get_unit_stats(name, r, now)
        IN /\ unit_name' = name
           /\ todo' = Tail(todo)
           /\ reply' = r
           /\ listing' = listing
           /\ stats' = st
           /\ old_stats' = None
           /\ trace' = <<[ev |-> "collect", unit |-> name]>>
           /\ collected' = Append(collected, [unit |-> name, stats |-> st])
           /\ pc' = IF st = None THEN AfterCall(Tail(todo)) ELSE "store"
    /\ UNCHANGED <<handler, exit_status, config, store, env, emitted, raised, entry,
                   removed_since, discovery>>

\* lines 334-335
store_stats ==
    /\ pc = "store"
    /\ old_stats' = dict_get(units, unit_name)
    /\ units' = dict_set(units, unit_name, stats[1])
    /\ trace' = Append(trace, [ev |-> "store", unit |-> unit_name])
    /\ pc' = "log"
    /\ UNCHANGED <<handler, exit_status, config, filtered_units, env, todo, unit_name,
                   stats, reply, listing, collected, emitted, raised, entry, removed_since, discovery>>

\* the text of the info line of lines 339-342
StateChanged(name, old_state, new_state) ==
    <<"Unit ", name, " state changed: ", old_state, " -> ", new_state>>

\* log_state_change with the two states of the line exchanged
log_state_change_Swapped ==
    /\ pc = "log"
    /\ IF old_stats # None /\ old_stats[1].active_state # stats[1].active_state
       THEN trace' = Append(trace,
                [ev |-> "info",
                 msg |-> StateChanged(unit_name, stats[1].active_state,
                                      old_stats[1].active_state)])
       ELSE trace' = trace
    /\ pc' = "emit"
    /\ UNCHANGED <<handler, exit_status, config, store, env, locals, collected,
                   emitted, raised, entry, removed_since, discovery>>

\* log_state_change comparing the whole state of the unit, sub_state too
log_state_change_SubState ==
    /\ pc = "log"
    /\ IF old_stats # None
          /\ (old_stats[1].active_state # stats[1].active_state
               \/ old_stats[1].sub_state # stats[1].sub_state)
       THEN trace' = Append(trace,
                [ev |-> "info",
                 msg |-> StateChanged(unit_name, old_stats[1].active_state,
                                      stats[1].active_state)])
       ELSE trace' = trace
    /\ pc' = "emit"
    /\ UNCHANGED <<handler, exit_status, config, store, env, locals, collected,
                   emitted, raised, entry, removed_since, discovery>>

\* lines 337-342
log_state_change ==
    /\ pc = "log"
    /\ IF old_stats # None /\ old_stats[1].active_state # stats[1].active_state
       THEN trace' = Append(trace,
                [ev |-> "info",
                 msg |-> StateChanged(unit_name, old_stats[1].active_state,
                                      stats[1].active_state)])
       ELSE trace' = trace
    /\ pc' = "emit"
    /\ UNCHANGED <<handler, exit_status, config, store, env, locals, collected,
                   emitted, raised, entry, removed_since, discovery>>

\* an emit that takes the snapshot out of the store again when the send
\* has failed
emit_RollsBack ==
    /\ pc = "emit"
    /\ \E outcome \in SocketOutcomes :
        LET r == send_to_telegraf(stats[1], outcome)
        IN /\ trace' = trace \o r.events
           /\ raised' = r.raised
           /\ pc' = IF r.raised THEN "ret" ELSE AfterCall(todo)
           /\ units' = IF outcome = "ok" THEN units ELSE dict_pop(units, unit_name)
    /\ emitted' = Append(emitted, stats[1])
    /\ UNCHANGED <<handler, exit_status, config, filtered_units, env, locals,
                   collected, entry, removed_since, discovery>>

\* line 344: self.send_to_telegraf(stats)
emit ==
    /\ pc = "emit"
    /\ \E outcome \in SocketOutcomes :
        LET r == send_to_telegraf(stats[1], outcome)
        IN /\ trace' = trace \o r.events
           /\ raised' = r.raised
           /\ pc' = IF r.raised THEN "ret" ELSE AfterCall(todo)
    /\ emitted' = Append(emitted, stats[1])
    /\ UNCHANGED <<handler, exit_status, config, store, env, locals, collected,
                   entry, removed_since, discovery>>

\* lines 294-295 when the collector neither refuses nor serves: the socket
\* is blocking and has no timeout, so connect (backlog full) or send (buffer
\* full) waits inside send_to_telegraf
emit_blocks ==
    /\ pc = "emit"
    /\ pc' = "blocked"
    /\ emitted' = Append(emitted, stats[1])
    /\ UNCHANGED <<handler, exit_status, config, store, env, locals, trace,
                   collected, raised, entry, removed_since, discovery>>

\* the collector accepts, reads or goes away: the waiting call goes on
CollectorResponds ==
    /\ pc = "blocked"
    /\ \E outcome \in SocketOutcomes \ {"socket_fail"} :
        LET r == send_to_telegraf(stats[1], outcome)
        IN /\ trace' = trace \o r.events
           /\ raised' = r.raised
           /\ pc' = IF r.raised THEN "ret" ELSE AfterCall(todo)
    /\ UNCHANGED <<handler, exit_status, config, store, env, locals, collected,
                   emitted, entry, removed_since, discovery>>

\* the handler returns to its caller: run (startup) or the main loop
return ==
    /\ pc = "ret"
    /\ pc' = IF handler = "startup" THEN "arm" ELSE "idle"
    /\ handler' = "none"
    /\ todo' = <<>>
    /\ unit_name' = <<>>
    /\ stats' = None
    /\ old_stats' = None
    /\ reply' = NoReply
    /\ listing' = None
    /\ trace' = <<>>
    /\ collected' = <<>>
    /\ emitted' = <<>>
    /\ raised' = FALSE
    /\ scope0' = {}
    /\ units0' = EmptyDict
    /\ discovery' = IF handler = "startup" THEN discovery ELSE "listed"
    /\ UNCHANGED <<exit_status, config, store, env, removed_since>>

collect_loop == collect(LoopReplies)

Next ==
    \/ connect_to_systemd
    \/ get_all_units
    \/ arm_timer
    \/ SignalArrives
    \/ TimerFires
    \/ Interrupt
    \/ on_unit_new
    \/ on_unit_removed
    \/ on_properties_changed
    \/ poll_units
    \/ collect_loop
    \/ store_stats
    \/ log_state_change
    \/ emit
    \/ emit_blocks
    \/ CollectorResponds
    \/ return

Spec == Init /\ [][Next]_vars

\* the steps of the monitor's own thread
ThreadStep ==
    \/ connect_to_systemd
    \/ get_all_units
    \/ arm_timer
    \/ on_unit_new
    \/ on_unit_removed
    \/ on_properties_changed
    \/ poll_units
    \/ collect_loop
    \/ store_stats
    \/ log_state_change
    \/ emit
    \/ emit_blocks
    \/ return

\* the thread runs whenever it can; the bus, the timer and the collector
\* owe nothing
SpecFair == Spec /\ WF_vars(ThreadStep)


\* ------------------------------------------- the collector on its own
\* collect_and_send_unit_stats called for one unit in scope, the bus failing
\* in every combination of calls
Service == <<"s", "e", "r", "v", "i", "c", "e">>
CollectNames == UnitNames \cup {Service, DotService}

InitCollect ==
    /\ pc = "collect"
    /\ handler = "new"
    /\ exit_status = None
    /\ include_patterns = <<>>
    /\ exclude_patterns = <<>>
    /\ units = EmptyDict
    /\ \E name \in CollectNames :
        /\ filtered_units = {name}
        /\ todo = <<name>>
        /\ unit_name = name
    /\ signals = <<>>
    /\ timer_armed = TRUE
    /\ tick_due = FALSE
    /\ stats = None
    /\ old_stats = None
    /\ reply = NoReply
    /\ listing = None
    /\ trace = <<>>
    /\ collected = <<>>
    /\ emitted = <<>>
    /\ raised = FALSE
    /\ scope0 = {}
    /\ units0 = EmptyDict
    /\ removed_since = {}
    /\ discovery = "listed"

collect_any == collect(AllReplies)

NextCollect ==
    \/ collect_any
    \/ store_stats
    \/ log_state_change
    \/ emit

SpecCollect == InitCollect /\ [][NextCollect]_vars

\* ------------------------------------------------- the filter on its own
\* _should_monitor_unit over names and pattern lists: a monitor in its main
\* loop, constructed with any two pattern lists, is notified of a new unit
StarDotService == <<"*">> \o DotService
FilterPatterns == {<<"*">>, StarDotService, StarDotTimer, aService}
FilterNames == UnitNames \cup {<<>>}

\* what _parse_filter_list returns: a list of non-empty patterns
RECURSIVE ParsedLists(_)
ParsedLists(n) ==
    IF n = 0 THEN {<<>>}
    ELSE ParsedLists(n - 1)
         \cup { Append(l, q) : l \in { m \in ParsedLists(n - 1) : Len(m) = n - 1 },
                               q \in FilterPatterns }

InitFilter ==
    /\ pc = "idle"
    /\ handler = "none"
    /\ exit_status = None
    /\ include_patterns \in ParsedLists(MaxPatterns)
    /\ exclude_patterns \in ParsedLists(MaxPatterns)
    /\ units = EmptyDict
    /\ filtered_units = {}
    /\ \E name \in FilterNames :
        signals = <<Sig("UnitNew", name, "org.freedesktop.systemd1.Manager")>>
    /\ timer_armed = TRUE
    /\ tick_due = FALSE
    /\ todo = <<>>
    /\ unit_name = <<>>
    /\ stats = None
    /\ old_stats = None
    /\ reply = NoReply
    /\ listing = None
    /\ trace = <<>>
    /\ collected = <<>>
    /\ emitted = <<>>
    /\ raised = FALSE
    /\ scope0 = {}
    /\ units0 = EmptyDict
    /\ removed_since = {}
    /\ discovery = "listed"

NextFilter ==
    \/ on_unit_new
    \/ collect_loop
    \/ store_stats
    \/ log_state_change
    \/ emit
    \/ return

SpecFilter == InitFilter /\ [][NextFilter]_vars

\* ------------------------------------------------- startup and after it
\* run from its start, with the notifications that arrive before the main
\* loop runs; these wait in the queue of the connection
SignalArrivesAtStartup ==
    /\ handler = "startup"
    /\ pc \notin {"connect", "exited"}
    /\ Len(signals) < MaxStartupQueue
    /\ \E s \in Signals : signals' = Append(signals, s)
    /\ UNCHANGED <<pc, handler, exit_status, config, store, timer_armed, tick_due,
                   locals, record, entry, removed_since, discovery>>

\* the bus serves a collection or fails it
StartupReplies ==
    { MkReply({}, "active", "running", 1234),
      MkReply({"GetUnit"}, "inactive", "dead", 0) }

collect_startup == collect(StartupReplies)

NextStartup ==
    \/ connect_to_systemd
    \/ get_all_units
    \/ SignalArrivesAtStartup
    \/ collect_startup
    \/ store_stats
    \/ log_state_change
    \/ emit
    \/ return
    \/ arm_timer
    \/ TimerFires
    \/ on_unit_new
    \/ on_unit_removed
    \/ on_properties_changed
    \/ poll_units

SpecStartup == Init /\ [][NextStartup]_vars

\* ------------------------------------------------ the emitter on its own
\* send_to_telegraf over snapshots with any strings in them: a handler is
\* about to emit the snapshot it holds
WireNames ==
    { <<"a">>, <<"a", " ", "b">>, <<"a", ",", "b">>, <<"a", "\"">>,
      <<"a", "=", "b">>, <<"a", "\n", "b">>, <<>> }
WireStates == {"active", " ", ",", "\"", "=", ""}

InitWire ==
    /\ pc = "emit"
    /\ handler = "new"
    /\ exit_status = None
    /\ include_patterns = <<>>
    /\ exclude_patterns = <<>>
    /\ \E name \in WireNames, active_state \in WireStates,
          main_pid \in {0, 1234}, now \in Times :
        LET st == UnitStats(name, active_state, "running", "loaded", "enabled",
                            main_pid, 2, 52428800, 1234567890, now)
        IN /\ unit_name = name
           /\ stats = Some(st)
           /\ units = dict_set(EmptyDict, name, st)
           /\ filtered_units = {name}
           /\ collected = <<[unit |-> name, stats |-> Some(st)]>>
           /\ trace = <<[ev |-> "collect", unit |-> name],
                        [ev |-> "store", unit |-> name]>>
    /\ signals = <<>>
    /\ timer_armed = TRUE
    /\ tick_due = FALSE
    /\ todo = <<>>
    /\ old_stats = None
    /\ reply = NoReply
    /\ listing = None
    /\ emitted = <<>>
    /\ raised = FALSE
    /\ scope0 = {}
    /\ units0 = EmptyDict
    /\ removed_since = {}
    /\ discovery = "listed"

NextWire ==
    \/ emit
    \/ return

SpecWire == InitWire /\ [][NextWire]_vars

\* -------------------------------------------------- one pattern, one name
\* the glob matching of the filter: a monitor constructed with one include
\* pattern and no exclude pattern is notified of a new unit
aCapService == <<"a", ".", "S", "e", "r", "v", "i", "c", "e">>
DotCapService == <<".", "S", "e", "r", "v", "i", "c", "e">>
BracketName == <<"[", "a", "b", "]", ".", "s", "e", "r", "v", "i", "c", "e">>

GlobNames == {aService, aCapService, bTimer, BracketName, <<"!">>, <<"a">>}

GlobPatterns ==
    { <<"*">>, <<"?">>, aService, StarDotService, <<"*">> \o DotCapService,
      <<"?", ".", "t", "i", "m", "e", "r">>, <<"a", "*", "e">>, <<"!">>,
      BracketName, <<"[", "!", "a", "]", "*">>, <<"[", "a", "-", "c", "]">>,
      <<"[", "a">>, <<"a", "]">> }

InitGlob ==
    /\ pc = "idle"
    /\ handler = "none"
    /\ exit_status = None
    /\ \E pat \in GlobPatterns : include_patterns = <<pat>>
    /\ exclude_patterns = <<>>
    /\ units = EmptyDict
    /\ filtered_units = {}
    /\ \E name \in GlobNames :
        signals = <<Sig("UnitNew", name, "org.freedesktop.systemd1.Manager")>>
    /\ timer_armed = TRUE
    /\ tick_due = FALSE
    /\ todo = <<>>
    /\ unit_name = <<>>
    /\ stats = None
    /\ old_stats = None
    /\ reply = NoReply
    /\ listing = None
    /\ trace = <<>>
    /\ collected = <<>>
    /\ emitted = <<>>
    /\ raised = FALSE
    /\ scope0 = {}
    /\ units0 = EmptyDict
    /\ removed_since = {}
    /\ discovery = "listed"

SpecGlob == InitGlob /\ [][NextFilter]_vars

\* --------------------------------------------- the transition log on its own
\* the monitor without filters, the bus giving snapshots that differ in
\* active_state, snapshots that differ in sub_state and main_pid only, and
\* failures
RelogReplies ==
    { MkReply({}, "active", "running", 1234),
      MkReply({}, "active", "exited", 0),
      MkReply({}, "inactive", "dead", 0),
      MkReply({"GetUnit"}, "inactive", "dead", 0) }

InitRelog ==
    /\ Init
    /\ include_patterns = <<>>
    /\ exclude_patterns = <<>>

collect_relog == collect(RelogReplies)

\* the manager announces units that appear and units that go
LifecycleSignalArrives ==
    /\ pc \notin {"connect", "exited"}
    /\ Len(signals) < MaxQueue
    /\ \E s \in Signals :
        /\ s.signal \in {"UnitNew", "UnitRemoved"}
        /\ signals' = Append(signals, s)
    /\ UNCHANGED <<pc, handler, exit_status, config, store, timer_armed, tick_due,
                   locals, record, entry, removed_since, discovery>>

NextRelog ==
    \/ connect_to_systemd
    \/ get_all_units
    \/ arm_timer
    \/ LifecycleSignalArrives
    \/ TimerFires
    \/ on_unit_new
    \/ on_unit_removed
    \/ poll_units
    \/ collect_relog
    \/ store_stats
    \/ log_state_change
    \/ emit
    \/ return

SpecRelog == InitRelog /\ [][NextRelog]_vars

\* ------------------------------------------------------------ properties
CountEv(tr, e) == Cardinality({ i \in 1..Len(tr) : tr[i].ev = e })
Positions(tr, e) == { i \in 1..Len(tr) : tr[i].ev = e }

\* a collect_and_send_unit_stats call of the running handler has returned
CallReturned == pc \in {"collect", "ret"} /\ trace # <<>>

\* C1: once on_unit_removed has handled the signal for a unit, the unit is
\* neither in filtered_units nor in units, and the handler has collected
\* nothing and emitted nothing.
C1_RemovedUnitGone ==
    (handler = "removed" /\ pc = "ret") =>
        /\ unit_name \notin filtered_units
        /\ unit_name \notin DOMAIN units
        /\ collected = <<>>
        /\ emitted = <<>>
        /\ trace = <<>>

C1_Witness ==
    /\ handler = "removed"
    /\ pc = "ret"
    /\ unit_name \in scope0
    /\ unit_name \in DOMAIN units0

\* C2: a unit that was tracked when its UnitRemoved was handled is neither
\* collected nor emitted by any poll tick until a UnitNew for it is handled.
C2_NoPollAfterRemoved ==
    handler = "poll" =>
        /\ \A i \in 1..Len(collected) : collected[i].unit \notin removed_since
        /\ \A i \in 1..Len(emitted) : emitted[i].name \notin removed_since
        /\ \A i \in 1..Len(todo) : todo[i] \notin removed_since

C2_Witness ==
    /\ handler = "poll"
    /\ pc = "ret"
    /\ removed_since # {}
    /\ emitted # <<>>

\* C3: on_unit_new for a unit that passes the filter puts the unit in
\* filtered_units and collects exactly once for it; when the collection
\* succeeds, units holds the collected snapshot and exactly one emit is made,
\* with that snapshot.
C3_NewUnitCollected ==
    (handler = "new" /\ should_monitor_unit(unit_name)) =>
        /\ unit_name \in filtered_units
        /\ pc = "ret" =>
            /\ Len(collected) = 1
            /\ collected[1].unit = unit_name
            /\ collected[1].stats # None =>
                /\ unit_name \in DOMAIN units
                /\ units[unit_name] = collected[1].stats[1]
                /\ emitted = collected[1].stats

C3_Witness ==
    /\ handler = "new"
    /\ pc = "ret"
    /\ unit_name \notin scope0
    /\ Len(emitted) = 1

\* C4: on_unit_new for a unit that fails the filter leaves filtered_units and
\* units as they were and collects nothing and emits nothing.
C4_RejectedUnitIgnored ==
    (handler = "new" /\ ~should_monitor_unit(unit_name)) =>
        /\ filtered_units = scope0
        /\ units = units0
        /\ pc = "ret"
        /\ collected = <<>>
        /\ emitted = <<>>
        /\ trace = <<>>

C4_Witness ==
    /\ handler = "new"
    /\ pc = "ret"
    /\ ~should_monitor_unit(unit_name)
    /\ scope0 # {}

\* C5: a poll tick collects exactly once for every unit that was in
\* filtered_units when it started and for no other unit; for every unit
\* whose collection succeeded, units holds exactly the new snapshot and
\* exactly one emit was made for it.
C5_PollCoversScope ==
    handler = "poll" =>
        /\ \A i \in 1..Len(collected) :
            /\ collected[i].unit \in scope0
            /\ \A j \in 1..Len(collected) :
                collected[j].unit = collected[i].unit => i = j
        /\ pc = "ret" => \A u \in scope0 : \E i \in 1..Len(collected) :
                                collected[i].unit = u
        /\ \A i \in 1..Len(collected) :
            (collected[i].stats # None /\ (i < Len(collected) \/ CallReturned)) =>
                LET u == collected[i].unit
                IN /\ u \in DOMAIN units
                   /\ units[u] = collected[i].stats[1]
                   /\ Cardinality({ j \in 1..Len(emitted) : emitted[j].name = u }) = 1
                   /\ \E j \in 1..Len(emitted) : emitted[j] = collected[i].stats[1]

C5_Witness ==
    /\ handler = "poll"
    /\ pc = "ret"
    /\ Len(collected) = 2
    /\ Len(emitted) = 1
    /\ \E u \in DOMAIN units0 : u \in DOMAIN units /\ units[u] # units0[u]

\* the unit of the returned call had a stored active_state that differs from
\* the collected one
ActiveStateChanged ==
    /\ stats # None
    /\ old_stats # None
    /\ old_stats[1].active_state # stats[1].active_state

TransitionLine ==
    [ev |-> "info",
     msg |-> StateChanged(unit_name, old_stats[1].active_state, stats[1].active_state)]

\* C6 as stated: the single transition line is produced before the store
\* entry is overwritten.
C6_LogBeforeStore ==
    (CallReturned /\ ActiveStateChanged) =>
        /\ CountEv(trace, "info") = 1
        /\ \E i \in Positions(trace, "info") :
            /\ trace[i] = TransitionLine
            /\ \A j \in Positions(trace, "store") : i < j

\* C6: when a call of collect_and_send_unit_stats collects for a unit whose
\* stored active_state differs from the collected one, exactly one line
\* "Unit <name> state changed: <old> -> <new>" is logged, <old> being the
\* active_state stored before the call; the line is logged after the store
\* entry has been overwritten and before the emit.
C6_LogAfterStore ==
    (CallReturned /\ ActiveStateChanged) =>
        /\ CountEv(trace, "info") = 1
        /\ \E i \in Positions(trace, "info") :
            /\ trace[i] = TransitionLine
            /\ old_stats = dict_get(units0, unit_name)
            /\ \A j \in Positions(trace, "store") : j < i
            /\ \A j \in Positions(trace, "socket") \cup Positions(trace, "socket_raises") :
                i < j

C6_Witness ==
    /\ CallReturned
    /\ ActiveStateChanged
    /\ CountEv(trace, "store") = 1


\* the bus answered every mandatory call of the running collection
MandatoryOk == reply.fails \cap MandatoryCalls = {}

\* C7: collection is all-or-nothing on the mandatory part: when resolving the
\* unit or reading ActiveState, SubState or LoadState fails there is no
\* snapshot, nothing is stored and nothing is emitted; when all of them
\* succeed there is a snapshot, whichever extended reads fail.
C7_MandatoryAllOrNothing ==
    trace # <<>> =>
        /\ ~MandatoryOk =>
            /\ stats = None
            /\ units = units0
            /\ emitted = <<>>
            /\ pc = AfterCall(todo)
            /\ Len(trace) = 1
        /\ MandatoryOk =>
            /\ stats # None
            /\ stats[1].name = unit_name
            /\ stats[1].active_state = reply.ActiveState
            /\ stats[1].sub_state = reply.SubState
            /\ stats[1].load_state = reply.LoadState

C7_Witness ==
    /\ trace # <<>>
    /\ reply.fails = {"LoadState"}
    /\ stats = None
    /\ pc = "ret"

\* the extended reads that apply to the unit of the running collection
Applicable ==
    IF endswith(unit_name, DotService)
    THEN ExtendedCalls
    ELSE ExtendedCalls \ {"MainPID", "NRestarts"}

\* the field of snapshot st that extended read p fills
Field(st, p) ==
    CASE p = "MainPID" -> [default |-> st.main_pid = 0, bus |-> st.main_pid = reply.MainPID]
      [] p = "NRestarts" ->
            [default |-> st.restart_count = 0, bus |-> st.restart_count = reply.NRestarts]
      [] p = "MemoryCurrent" ->
            [default |-> st.memory_current = 0, bus |-> st.memory_current = reply.MemoryCurrent]
      [] p = "CPUUsageNSec" ->
            [default |-> st.cpu_usage_nsec = 0, bus |-> st.cpu_usage_nsec = reply.CPUUsageNSec]
      [] p = "UnitFileState" ->
            [default |-> st.unit_file_state = "unknown",
             bus |-> st.unit_file_state = reply.UnitFileState]

\* C8: every extended property fails on its own: the ones whose read fails
\* take their default, every other applicable one carries the value of the bus.
C8_ExtendedIndependent ==
    (trace # <<>> /\ stats # None) =>
        \A p \in Applicable :
            IF p \in reply.fails
            THEN Field(stats[1], p).default
            ELSE Field(stats[1], p).bus

\* C9: a snapshot of a unit whose name does not end in ".service" has
\* main_pid = 0 and restart_count = 0 whatever the bus holds; a snapshot of a
\* ".service" unit whose MainPID and NRestarts reads succeed carries them.
C9_ServiceOnlyFields ==
    (trace # <<>> /\ stats # None) =>
        IF endswith(unit_name, DotService)
        THEN reply.fails \cap {"MainPID", "NRestarts"} = {} =>
                /\ stats[1].main_pid = reply.MainPID
                /\ stats[1].restart_count = reply.NRestarts
        ELSE /\ stats[1].main_pid = 0
             /\ stats[1].restart_count = 0

C9_Witness ==
    /\ stats # None
    /\ unit_name = bTimer
    /\ reply.fails = {}
    /\ reply.MainPID = 1234
    /\ stats[1].main_pid = 0

\* the socket of the running emit refused the connection or failed the send
SocketFailed ==
    CountEv(trace, "connect_raises") + CountEv(trace, "send_raises") > 0

\* C10: when connect or send fails during an emit, no exception leaves
\* send_to_telegraf and exactly one warning is logged for the call.
C10_SocketFailureWarned ==
    SocketFailed =>
        /\ ~raised
        /\ CountEv(trace, "warning") = 1
        /\ CountEv(trace, "error") = 0
        /\ pc = AfterCall(todo)

C10_Witness ==
    /\ CountEv(trace, "send_raises") = 1
    /\ CountEv(trace, "connect") = 1
    /\ pc = "collect"


\* the places of the running call's trace where the socket is used
SocketUses ==
    Positions(trace, "connect") \cup Positions(trace, "connect_raises")
    \cup Positions(trace, "send") \cup Positions(trace, "send_raises")

\* C11: an emit call opens one socket of its own and closes it exactly once
\* on every path (success, connect failure, send failure); the socket is used
\* only between its creation and its close, so none stays open and none is
\* used by a later call.
C11_SocketClosedOnce ==
    /\ CountEv(trace, "socket") <= 1
    /\ CountEv(trace, "socket") = CountEv(trace, "close")
    /\ \A j \in SocketUses :
        /\ \E i \in Positions(trace, "socket") : i < j
        /\ \E k \in Positions(trace, "close") : j < k
    /\ (pc \in {"collect", "ret"} /\ emitted # <<>> /\ CountEv(trace, "socket_raises") = 0
        /\ stats # None) =>
            CountEv(trace, "socket") = 1

C11_Witness ==
    /\ CountEv(trace, "connect_raises") = 1
    /\ CountEv(trace, "socket") = 1
    /\ CountEv(trace, "close") = 1

HasStats(c) == c.stats # None

\* C12: a snapshot whose emission fails is dropped: an emit call connects at
\* most once and sends at most once, and every snapshot a handler passes to
\* the emitter is the one its own collection has just produced, passed once;
\* nothing is kept to be sent again.
C12_FailedSnapshotDropped ==
    LET succeeded == SelectSeq(collected, HasStats)
    IN /\ CountEv(trace, "connect") + CountEv(trace, "connect_raises") <= 1
       /\ CountEv(trace, "send") + CountEv(trace, "send_raises") <= 1
       /\ \A i \in Positions(trace, "send") : trace[i].stats = stats[1]
       /\ Len(emitted) <= Len(succeeded)
       /\ \A j \in 1..Len(emitted) : emitted[j] = succeeded[j].stats[1]

C12_Witness ==
    /\ handler = "poll"
    /\ CallReturned
    /\ CountEv(trace, "warning") = 1
    /\ unit_name \in DOMAIN units0
    /\ Len(emitted) = 2


\* C13: every emit call returns whatever the collector does (refusing, not
\* accepting, not reading): once the thread has reached the emit, it comes
\* back to the handler's loop or to the handler's end.
C13_EmitReturns == (pc = "emit") ~> (pc \in {"collect", "ret"})


\* C14: a failed bus connection at startup ends the process with a
\* non-zero exit status, and the process ends in no other way than that
\* one or the interrupt of the idle main loop: no failure while listing,
\* collecting or emitting ends it.
C14_OnlyBusFailureFatal ==
    /\ [][pc = "connect" /\ trace' = <<Ev("bus_error")>>
            => pc' = "exited" /\ exit_status' # None /\ exit_status'[1] # 0]_vars
    /\ [][pc # "exited" /\ pc' = "exited"
            => \/ pc = "connect" /\ trace' = <<Ev("bus_error")>>
               \/ pc = "idle" /\ exit_status' = Some(0)]_vars
    /\ [](exit_status # None <=> pc = "exited")

C14_Witness ==
    /\ pc = "exited"
    /\ trace = <<Ev("bus_error")>>
    /\ exit_status = Some(1)


\* C15: when ListUnits fails, get_all_units gives the empty list: startup
\* collects and emits nothing and leaves scope and store empty, the process
\* does not end on it, and the main loop is entered with the timer armed,
\* where a queued notification and a due poll tick are dispatched.
C15_ListFailureNotFatal ==
    discovery = "failed" =>
        /\ pc = "exited" => exit_status = Some(0)
        /\ handler = "startup" =>
              /\ pc = "ret"
              /\ todo = <<>>
              /\ collected = <<>>
              /\ emitted = <<>>
              /\ units = EmptyDict
              /\ filtered_units = {}
              /\ ENABLED return
        /\ pc = "arm" => ENABLED arm_timer
        /\ pc = "idle" =>
              /\ timer_armed
              /\ signals # <<>> =>
                    ENABLED (on_unit_new \/ on_unit_removed \/ on_properties_changed)
              /\ tick_due => ENABLED poll_units

\* a notification is handled, its unit collected and emitted, after a
\* discovery that failed
C15_Witness ==
    /\ discovery = "failed"
    /\ handler = "new"
    /\ units0 = EmptyDict
    /\ emitted # <<>>


\* C16: one handler at a time, each run to its end: a handler starts only
\* from the idle main loop with no handler running and ends only by
\* returning; while one runs no notification is taken from the queue and
\* no tick is consumed; and during a poll tick the scope set does not
\* change and the store changes only by the poll's own store of the unit
\* it is collecting.
C16_HandlersExclusive ==
    /\ [][handler' # handler
            => \/ handler = "none" /\ pc = "idle" /\ pc' # "idle"
               \/ handler' = "none" /\ pc = "ret"]_vars
    /\ [][handler # "none" /\ pc # "ret"
            => /\ handler' = handler
               /\ Len(signals') >= Len(signals)
               /\ tick_due => tick_due']_vars
    /\ [][handler = "poll" /\ pc # "ret"
            => /\ filtered_units' = filtered_units
               /\ \/ units' = units
                  \/ pc = "store" /\ units' = dict_set(units, unit_name, stats[1])]_vars
    /\ [](handler = "none"
            <=> (pc \in {"arm", "idle"} \/ (pc = "exited" /\ exit_status = Some(0))))

\* a notification arrives while a poll tick is in the middle of its
\* iteration: one unit stored, another still to collect
C16_Witness ==
    /\ handler = "poll"
    /\ pc = "collect"
    /\ collected # <<>>
    /\ units # units0
    /\ signals # <<>>
    /\ Head(signals).signal = "UnitRemoved"
    /\ Head(signals).name = Head(todo)


Matches(patterns) ==
    \E k \in 1..Len(patterns) : fnmatch(unit_name, patterns[k])

\* the answer _should_monitor_unit gave the handler for its unit: the scope
\* set was empty before
Accepted == unit_name \in filtered_units

\* C18: exclude wins over include: a unit name that matches some pattern
\* of the exclude list is rejected by _should_monitor_unit whatever the
\* include list is.
C18_ExcludeWins ==
    handler = "new" /\ Matches(exclude_patterns) => ~Accepted

\* a name that an include pattern and an exclude pattern both match
C18_Witness ==
    /\ handler = "new"
    /\ Matches(exclude_patterns)
    /\ Matches(include_patterns)
    /\ ~Accepted

\* C19: the empty unit name is rejected by _should_monitor_unit for every
\* pair of pattern lists, both empty and include "*" among them.
C19_EmptyNameRejected ==
    handler = "new" /\ unit_name = <<>> => ~Accepted

\* C20: a non-empty unit name is accepted by _should_monitor_unit exactly
\* when the include list is empty or one of its patterns matches the name,
\* and no pattern of the exclude list matches it.
C20_FilterRule ==
    handler = "new" /\ unit_name # <<>>
        => (Accepted <=> /\ include_patterns = <<>> \/ Matches(include_patterns)
                         /\ ~Matches(exclude_patterns))

\* the include list names the unit in its second pattern only
C20_Witness ==
    /\ handler = "new"
    /\ unit_name # <<>>
    /\ Len(include_patterns) = 2
    /\ ~fnmatch(unit_name, include_patterns[1])
    /\ fnmatch(unit_name, include_patterns[2])
    /\ Accepted


\* glob matching in which * and ? alone are special: pat[i..] against
\* name[j..], every other character of the pattern standing for itself
RECURSIVE LiteralGlobFrom(_, _, _, _)
LiteralGlobFrom(pat, i, name, j) ==
    IF i > Len(pat) THEN j > Len(name)
    ELSE IF pat[i] = "*"
         THEN \/ LiteralGlobFrom(pat, i + 1, name, j)
              \/ (j <= Len(name) /\ LiteralGlobFrom(pat, i, name, j + 1))
    ELSE IF j > Len(name) THEN FALSE
    ELSE IF pat[i] = "?" THEN LiteralGlobFrom(pat, i + 1, name, j + 1)
    ELSE pat[i] = name[j] /\ LiteralGlobFrom(pat, i + 1, name, j + 1)

\* the one include pattern the monitor was constructed with
ThePattern == include_patterns[1]

\* C21: only * (any run of characters, the empty one too) and ? (exactly one
\* character) are special in a filter pattern: any other character of it,
\* "[", "]" and "!" too, matches itself and nothing else.
C21_OnlyStarAndQuestion ==
    handler = "new" => (Accepted <=> LiteralGlobFrom(ThePattern, 1, unit_name, 1))


\* the characters of a bracket-free pattern that stand for themselves
Literals(pat) == SelectSeq(pat, LAMBDA c : c \notin {"*", "?"})

\* a[i..] can be read off b[j..] from left to right, skipping characters
RECURSIVE IsSubseqFrom(_, _, _, _)
IsSubseqFrom(a, i, b, j) ==
    IF i > Len(a) THEN TRUE
    ELSE IF j > Len(b) THEN FALSE
    ELSE IF a[i] = b[j] THEN IsSubseqFrom(a, i + 1, b, j + 1)
    ELSE IsSubseqFrom(a, i, b, j + 1)

\* C22: matching is case-sensitive: a name is accepted only if it has the
\* literal characters of the pattern in the pattern's own case, and
\* include ["*.Service"] accepts exactly the names that end in ".Service",
\* so "a.Service" and not "a.service".
C22_CaseSensitive ==
    handler = "new" /\ "[" \notin Range(ThePattern)
        => /\ Accepted => IsSubseqFrom(Literals(ThePattern), 1, unit_name, 1)
           /\ ThePattern = <<"*">> \o DotCapService
                 => (Accepted <=> endswith(unit_name, DotCapService))

\* the lower-case name is rejected by the pattern in upper case
C22_Witness ==
    /\ handler = "new"
    /\ ThePattern = <<"*">> \o DotCapService
    /\ unit_name = aService
    /\ ~Accepted


\* ------------------------------------------------ reading a line back
\* str.split(sep): the runs of pieces between the separators
RECURSIVE Split(_, _)
Split(s, sep) ==
    IF \A k \in 1..Len(s) : s[k] # sep THEN <<s>>
    ELSE LET k == CHOOSE i \in 1..Len(s) :
                      s[i] = sep /\ \A j \in 1..(i - 1) : s[j] # sep
         IN <<SubSeq(s, 1, k - 1)>> \o Split(SubSeq(s, k + 1, Len(s)), sep)

\* str.split("=", 1) of an item that has a "=": key and value
KeyOf(item) == Split(item, "=")[1]
ValueOf(item) == SubSeq(item, Len(KeyOf(item)) + 2, Len(item))

\* the line without the newline that ends it
Chomp(line) ==
    IF line # <<>> /\ line[Len(line)] = "\n"
    THEN SubSeq(line, 1, Len(line) - 1)
    ELSE line

IsDigits(s) == s # <<>> /\ \A k \in 1..Len(s) : s[k] \in Range(DigitChars)
IsQuoted(s) == Len(s) >= 2 /\ s[1] = "\"" /\ s[Len(s)] = "\""
IsIntField(s) == Len(s) >= 2 /\ s[Len(s)] = "i" /\ IsDigits(SubSeq(s, 1, Len(s) - 1))

TagKeys ==
    <<"unit", "active_state", "sub_state", "load_state", "unit_file_state",
      "username", "uid">>
FieldKeys == <<"main_pid", "restart_count", "memory_current", "cpu_usage_nsec">>

\* the form <measurement>,<tags> <fields> <timestamp_ns>\n
WellFormed(line) ==
    /\ line # <<>>
    /\ line[Len(line)] = "\n"
    /\ LET parts == Split(Chomp(line), " ")
       IN /\ Len(parts) = 3
          /\ LET head == Split(parts[1], ",")
                 fields == Split(parts[2], ",")
             IN /\ Len(head) = 1 + Len(TagKeys)
                /\ head[1] = <<measurement>>
                /\ \A k \in 1..Len(TagKeys) :
                      /\ KeyOf(head[k + 1]) = <<TagKeys[k]>>
                      /\ IsQuoted(ValueOf(head[k + 1]))
                /\ Len(fields) = Len(FieldKeys)
                /\ \A k \in 1..Len(FieldKeys) :
                      /\ KeyOf(fields[k]) = <<FieldKeys[k]>>
                      /\ IsIntField(ValueOf(fields[k]))
          /\ IsDigits(parts[3])

\* C23: every line that is sent has the form
\* <measurement>,<tags> <fields> <timestamp_ns>\n: the seven tags in the
\* order unit, active_state, sub_state, load_state, unit_file_state,
\* username, uid, each value in double quotes; the four fields in the order
\* main_pid, restart_count, memory_current, cpu_usage_nsec, each an integer
\* followed by i, a zero too; and a call sends its line with one send.
C23_LineFormat ==
    /\ \A i \in Positions(trace, "send") : WellFormed(trace[i].line)
    /\ CountEv(trace, "send") <= 1

\* a line was sent for a snapshot whose four fields are all zero
C23_Witness ==
    \E i \in Positions(trace, "send") :
        /\ trace[i].stats.main_pid = 0
        /\ trace[i].stats.restart_count = 0
        /\ trace[i].stats.memory_current = 0
        /\ trace[i].stats.cpu_usage_nsec = 0


\* int(s) of a string of digits
RECURSIVE ParseInt(_)
ParseInt(s) ==
    IF Len(s) = 1 THEN (CHOOSE d \in 0..9 : DigitChars[d + 1] = s[1])
    ELSE 10 * ParseInt(SubSeq(s, 1, Len(s) - 1))
         + (CHOOSE d \in 0..9 : DigitChars[d + 1] = s[Len(s)])

\* the tag values and field values a line is written from
TagValues(st) ==
    << st.name, Str(st.active_state), Str(st.sub_state), Str(st.load_state),
       Str(st.unit_file_state), Str(username), Digits(uid) >>
FieldValues(st) ==
    << st.main_pid, st.restart_count, st.memory_current, st.cpu_usage_nsec >>

\* parsing the line gives the snapshot's values back: split on spaces into
\* measurement with tags, fields and timestamp; tags and fields split on
\* commas, each item on its first "="; a tag value is what its quotes hold,
\* a field value the integer before the i
RoundTrips(st, line) ==
    LET parts == Split(Chomp(line), " ")
    IN /\ Len(parts) = 3
       /\ LET head == Split(parts[1], ",")
              fields == Split(parts[2], ",")
          IN /\ Len(head) = 1 + Len(TagKeys)
             /\ \A k \in 1..Len(TagKeys) :
                   LET v == ValueOf(head[k + 1])
                   IN /\ KeyOf(head[k + 1]) = <<TagKeys[k]>>
                      /\ IsQuoted(v)
                      /\ SubSeq(v, 2, Len(v) - 1) = TagValues(st)[k]
             /\ Len(fields) = Len(FieldKeys)
             /\ \A k \in 1..Len(FieldKeys) :
                   LET v == ValueOf(fields[k])
                   IN /\ KeyOf(fields[k]) = <<FieldKeys[k]>>
                      /\ IsIntField(v)
                      /\ ParseInt(SubSeq(v, 1, Len(v) - 1)) = FieldValues(st)[k]

\* the strings of the snapshot are non-empty and hold none of the pieces
NoneOf(st, pieces) ==
    \A k \in 1..5 :
        /\ TagValues(st)[k] # <<>>
        /\ Range(TagValues(st)[k]) \cap pieces = {}

\* C24 as stated: round trip for every snapshot whose strings are non-empty
\* and hold no double quote and no comma.
C24_RoundTrip ==
    \A i \in Positions(trace, "send") :
        NoneOf(trace[i].stats, {"\"", ","})
            => RoundTrips(trace[i].stats, trace[i].line)

\* C24: round trip for every snapshot whose strings are non-empty and hold
\* no double quote, no comma and no space: parsing the line that was sent
\* gives the snapshot's tag values and field values.
C24_RoundTripNoSpace ==
    \A i \in Positions(trace, "send") :
        NoneOf(trace[i].stats, {"\"", ",", " "})
            => RoundTrips(trace[i].stats, trace[i].line)

\* a line was sent for a snapshot whose name holds a "="
C24_Witness ==
    \E i \in Positions(trace, "send") :
        /\ NoneOf(trace[i].stats, {"\"", ",", " "})
        /\ "=" \in Range(trace[i].stats.name)
        /\ RoundTrips(trace[i].stats, trace[i].line)


\* the filter's verdict on a name, written out: the include list is empty
\* or one of its patterns matches, and no exclude pattern matches
PassesFilter(name) ==
    /\ \/ include_patterns = <<>>
       \/ \E k \in 1..Len(include_patterns) : fnmatch(name, include_patterns[k])
    /\ \A k \in 1..Len(exclude_patterns) : ~fnmatch(name, exclude_patterns[k])

\* C25: every unit name in the scope set passes the filter of the
\* configured patterns, whatever discovery, notifications and poll ticks
\* came before.
C25_ScopePassesFilter == \A u \in filtered_units : PassesFilter(u)

\* a unit the filter rejects was announced while another unit is in scope
C25_Witness ==
    /\ handler = "new"
    /\ ~PassesFilter(unit_name)
    /\ filtered_units # {}


\* the ten fields of the dataclass UnitStats
StatsFields ==
    {"name", "active_state", "sub_state", "load_state", "unit_file_state",
     "main_pid", "restart_count", "memory_current", "cpu_usage_nsec", "timestamp"}

\* C26: every entry of the State Store is a whole snapshot, never a null
\* and never part of one, filed under the name of the unit it was taken of,
\* and that unit is in the scope set now: no entry outlives its unit's
\* leaving scope.
C26_StoreEntriesWholeAndInScope ==
    \A u \in DOMAIN units :
        /\ u \in filtered_units
        /\ units[u] # None
        /\ DOMAIN units[u] = StatsFields
        /\ units[u].name = u
        /\ units[u].timestamp \in Times

\* a stored unit has just left scope while another one stays stored
C26_Witness ==
    /\ handler = "removed"
    /\ unit_name \in DOMAIN units0
    /\ unit_name \notin filtered_units
    /\ units # EmptyDict


\* the items of seq that pass the filter, in the order of seq
RECURSIVE Passing(_)
Passing(seq) ==
    IF seq = <<>> THEN <<>>
    ELSE IF PassesFilter(Head(seq)) THEN <<Head(seq)>> \o Passing(Tail(seq))
    ELSE Passing(Tail(seq))

\* get_all_units has returned from a successful ListUnits and the initial
\* loop has not started
Discovered ==
    /\ handler = "startup"
    /\ listing # None
    /\ collected = <<>>
    /\ pc \in {"collect", "ret"}

\* C27: a successful discovery returns the listed names that pass the
\* filter, all of them and no other, in the order of the listing; the scope
\* set then holds each returned name and no listed name that fails the
\* filter.
C27_DiscoveryFilters ==
    Discovered =>
        /\ todo = Passing(listing[1])
        /\ Range(todo) \subseteq filtered_units
        /\ \A u \in Range(listing[1]) : ~PassesFilter(u) => u \notin filtered_units

\* a listing of two units, the first of which fails the filter
C27_Witness ==
    /\ Discovered
    /\ Len(listing[1]) = 2
    /\ ~PassesFilter(listing[1][1])
    /\ todo = <<listing[1][2]>>


\* the running collect_and_send call has reached its emit
EmitReached ==
    \/ pc \in {"emit", "blocked"}
    \/ Positions(trace, "socket") \cup Positions(trace, "socket_raises") # {}

\* C28: the emit comes after the store of the new snapshot: from the emit
\* on, sent or not, the store holds the snapshot just collected under the
\* unit's name, and the emit itself changes neither store nor scope set.
C28_EmitAfterStore ==
    /\ [](EmitReached =>
            /\ unit_name \in DOMAIN units
            /\ units[unit_name] = stats[1]
            /\ \A i \in Positions(trace, "store"), j \in 1..Len(trace) :
                  trace[j].ev \in {"socket", "socket_raises", "connect", "send"}
                      => i < j)
    /\ [][pc = "emit" \/ pc = "blocked" => UNCHANGED store]_vars

\* a send has failed and the store holds the snapshot that was not sent
C28_Witness ==
    /\ Positions(trace, "warning") # {}
    /\ Positions(trace, "store") # {}
    /\ unit_name \in DOMAIN units
    /\ units[unit_name] = stats[1]


\* the units the running handler has tried to collect
Attempted == { collected[i].unit : i \in 1..Len(collected) }

\* C29: a poll tick tries every unit of the scope set once, the units whose
\* collection failed before and the ones after a failure in this tick too;
\* every snapshot it obtains is stored and emitted; and the timer, once
\* armed, stays armed.
C29_PollFailureSkipsOneUnit ==
    /\ handler = "poll" /\ pc = "ret" =>
          /\ Attempted = scope0
          /\ Len(collected) = Cardinality(scope0)
          /\ filtered_units = scope0
          /\ \A i \in 1..Len(collected) :
                collected[i].stats # None =>
                    /\ \E j \in 1..Len(emitted) : emitted[j] = collected[i].stats[1]
                    /\ collected[i].unit \in DOMAIN units
          /\ timer_armed
    /\ handler \in {"new", "removed", "props", "poll"} \/ pc = "idle" => timer_armed

\* a poll tick in which the unit that has never been collected fails again
\* and the unit after it is collected and emitted
C29_Witness ==
    /\ handler = "poll"
    /\ pc = "ret"
    /\ Len(collected) = 2
    /\ collected[1].stats = None
    /\ collected[1].unit \notin DOMAIN units0
    /\ collected[2].stats # None
    /\ emitted = <<collected[2].stats[1]>>


\* the handler the main loop calls for a notification
HandlerOf(s) ==
    CASE s.signal = "UnitNew" -> "new"
      [] s.signal = "UnitRemoved" -> "removed"
      [] OTHER -> "props"

\* the snapshots of the collections that gave one, in order
RECURSIVE Snapshots(_)
Snapshots(cs) ==
    IF cs = <<>> THEN <<>>
    ELSE IF Head(cs).stats = None THEN Snapshots(Tail(cs))
    ELSE <<Head(cs).stats[1]>> \o Snapshots(Tail(cs))

\* the initial pass over a successful discovery is over
InitialPassDone == handler = "startup" /\ pc = "ret" /\ listing # None

\* the order of startup: nothing is queued or discovered before the
\* subscription; while startup runs no notification is taken from the queue
\* and no tick is consumed; notifications are queued at the end and taken
\* from the front, by the handler of their kind, when no handler runs; the
\* initial pass tries the discovered units once each, in order
StartupOrdering ==
    /\ [](pc = "connect" => signals = <<>> /\ discovery = "pending" /\ listing = None)
    /\ [][handler = "startup"
            => /\ handler' = "startup" \/ (pc = "ret" /\ handler' = "none")
               /\ Len(signals') >= Len(signals)
               /\ tick_due => tick_due']_vars
    /\ [][signals' # signals
            => \/ \E s \in Signals : signals' = Append(signals, s)
               \/ /\ pc = "idle" /\ handler = "none"
                  /\ signals' = Tail(signals)
                  /\ handler' = HandlerOf(Head(signals))
                  /\ unit_name' = Head(signals).name]_vars
    /\ [](InitialPassDone =>
            /\ [i \in 1..Len(collected) |-> collected[i].unit] = Passing(listing[1])
            /\ Len(emitted) <= Len(collected))

\* C30 as stated: with the order of startup, the initial pass collects,
\* stores and emits once for each discovered unit in scope.
C30_StartupEachUnitOnce ==
    /\ StartupOrdering
    /\ [](InitialPassDone =>
            /\ Len(emitted) = Len(collected)
            /\ \A i \in 1..Len(collected) : collected[i].unit \in DOMAIN units)

\* C30: the subscription comes before discovery; the initial pass runs the
\* collection once for each discovered unit in scope, in order, and one
\* store and one emit for each collection that gave a snapshot; it is over
\* before any notification handler or poll tick runs; the notifications
\* that arrived meanwhile are handled afterwards in the order they came.
C30_StartupOrder ==
    /\ StartupOrdering
    /\ [](InitialPassDone =>
            /\ emitted = Snapshots(collected)
            /\ \A i \in 1..Len(collected) :
                  collected[i].stats # None =>
                      /\ collected[i].unit \in DOMAIN units
                      /\ units[collected[i].unit] = collected[i].stats[1])

\* the first of two notifications that came during startup is being
\* handled, the second waits; the initial pass had stored a unit
C30_Witness ==
    /\ handler \in {"new", "removed"}
    /\ discovery = "listed"
    /\ units0 # EmptyDict
    /\ Len(signals) = MaxStartupQueue - 1
    /\ signals[1].signal = "PropertiesChanged"


\* C31: when the collection of a unit fails (get_unit_stats gives None), in
\* a poll tick, a lifecycle-new handler or the initial pass, the call of
\* collect_and_send_unit_stats returns at once: the State Store is what it
\* was (a stored snapshot of the unit stays as it is, no entry is made), the
\* scope set is what it was, nothing is passed to the emitter and no
\* transition line is logged.
C31_FailedCollectionNoEffect ==
    /\ [][Len(collected') = Len(collected) + 1 /\ stats' = None
            => /\ units' = units
               /\ filtered_units' = filtered_units
               /\ emitted' = emitted
               /\ trace' = <<[ev |-> "collect", unit |-> unit_name']>>
               /\ (pc' = "collect" \/ pc' = "ret")]_vars
    /\ [](stats = None => /\ CountEv(trace, "store") = 0
                          /\ CountEv(trace, "info") = 0
                          /\ CountEv(trace, "socket") = 0
                          /\ CountEv(trace, "send") = 0)

\* a poll tick in which the collection of a unit with a stored snapshot has
\* failed and the snapshot is still the stored one
C31_Witness ==
    /\ handler = "poll"
    /\ stats = None
    /\ trace = <<[ev |-> "collect", unit |-> unit_name]>>
    /\ unit_name \in DOMAIN units0
    /\ unit_name \in DOMAIN units
    /\ units[unit_name] = units0[unit_name]


\* the running call of collect_and_send_unit_stats has collected a snapshot
\* and found none stored for the unit
NothingStored == stats # None /\ CountEv(trace, "store") = 1 /\ old_stats = None

\* the running call has collected a snapshot whose active_state is the
\* stored one
SameActiveState ==
    /\ stats # None
    /\ old_stats # None
    /\ old_stats[1].active_state = stats[1].active_state

\* C32: a call of collect_and_send_unit_stats logs no transition line when
\* no snapshot is stored for the unit at the time of the collection, which
\* is so for every unit of the initial pass and for a unit that enters the
\* scope set by a lifecycle-new notification, after a lifecycle-removed one
\* too; and it logs none when the collected active_state is the stored one,
\* whatever sub_state and the other fields are. What the call compares with
\* is the snapshot that was stored when the handler began.
C32_NoLogWithoutTransition ==
    /\ NothingStored \/ SameActiveState => CountEv(trace, "info") = 0
    /\ CountEv(trace, "store") = 1 => old_stats = dict_get(units0, unit_name)
    /\ handler = "startup" => CountEv(trace, "info") = 0
    /\ handler = "new" /\ unit_name \notin scope0 => CountEv(trace, "info") = 0

\* a poll tick has collected and stored a snapshot of a unit whose stored
\* snapshot had the same active_state and another sub_state and main_pid,
\* and is past the comparison
C32_Witness ==
    /\ handler = "poll"
    /\ pc = "emit"
    /\ SameActiveState
    /\ old_stats[1].sub_state # stats[1].sub_state
    /\ old_stats[1].main_pid # stats[1].main_pid
    /\ CountEv(trace, "store") = 1
    /\ units[unit_name] = stats[1]


\* C33: once get_all_units has returned, a unit enters the scope set only
\* in the lifecycle-new handler of that unit and leaves it only in the
\* lifecycle-removed handler of that unit. A poll tick and a
\* properties-changed handler have the scope set they began with: a unit
\* whose collection fails in a tick stays in scope, and after a failed
\* discovery the scope set is empty until a lifecycle-new handler adds to it.
C33_ScopeChangesByLifecycleOnly ==
    /\ [][pc # "discover"
            => /\ \A u \in filtered_units' \ filtered_units :
                    pc = "idle" /\ handler' = "new" /\ unit_name' = u
               /\ \A u \in filtered_units \ filtered_units' :
                    pc = "idle" /\ handler' = "removed" /\ unit_name' = u]_vars
    /\ [](handler = "poll" \/ handler = "props" => filtered_units = scope0)
    /\ [](handler = "poll" =>
            \A i \in 1..Len(collected) :
                collected[i].stats = None => collected[i].unit \in filtered_units)
    /\ [](discovery = "failed" =>
            filtered_units \subseteq (IF handler = "new" THEN {unit_name} ELSE {}))

\* at the return of a poll tick a unit that has never been collected with
\* success since it entered the scope set has failed again and is in scope
C33_Witness ==
    /\ handler = "poll"
    /\ pc = "ret"
    /\ \E i \in 1..Len(collected) :
        /\ collected[i].stats = None
        /\ collected[i].unit \notin DOMAIN units
        /\ collected[i].unit \in filtered_units
    /\ filtered_units = scope0
    /\ filtered_units # {}

====
